---- MODULE Spec2Model ----
(***************************************************************************)
(* Error management of a binary parser (src/src/error.rs): the error      *)
(* accumulator VerboseError, the context() combinator that labels a       *)
(* failing parse step, and convert_error(), which renders an accumulated  *)
(* trace as an xxd-style hexdump with a caret under the offending byte.   *)
(*                                                                         *)
(* Text is modelled by the bytes a String holds, byte slices by a start   *)
(* address and the bytes they hold, so that offsets are recovered by      *)
(* address arithmetic exactly as the code does.  Where the outcome        *)
(* depends on the build profile (overflow checks), both are modelled.     *)
(***************************************************************************)
EXTENDS Integers, Sequences, FiniteSets, TLC

\* ------------------------------------------------------------------ bounds

\* Longest input buffer of the parse runs (Spec).
MaxPos == 1
\* Longest trace a parse run accumulates (Spec).
MaxEntries == 3
\* Longest input buffer handed to the renderer on its own (SpecRender).
MaxLen == 17
\* Longest trace handed to the renderer on its own (SpecRender).
MaxRender == 2
\* Most invocations of a context() wrapper in one run.
MaxCalls == 3

\* Addresses at which the input buffer may live (not 16-byte aligned, so an
\* offset is never mistaken for an address).
Addrs == {4099}
\* The bytes the generated buffers are filled with, over and over: control
\* characters, the space, graphic characters (the quotes, the grave accent
\* and the backslash among them), DEL and bytes above 0x7f, with both ends
\* of the printable range next to their neighbours (0x1f 0x20 0x21,
\* 0x7e 0x7f 0x80).
Samples ==
    <<0, 31, 32, 33, 34, 39, 48, 65, 92, 96, 97, 122, 126, 127, 128, 200, 255,
      10, 64>>

\* Labels the context! / error! macros produce, and nom's ErrorKind values.
Labels == {"hdr", "len"}
ErrorKinds == {"Eof", "Tag"}

\* The build profiles: overflow checks on (debug) or off (release).
Builds == {"debug", "release"}

\* ------------------------------------------------------------- byte slices

\* A &[u8]: the address of its first byte and the bytes it holds.
Slice(ptr, bytes) == [ptr |-> ptr, bytes |-> bytes]

\* The buffer of length n at address a, filled with the sample bytes.
Buffer(a, n) ==
    Slice(a, [j \in 1..n |-> Samples[((j - 1) % Len(Samples)) + 1]])

\* input[o..]: the rest of the buffer from offset o (what a parser is handed).
Suffix(input, o) ==
    Slice(input.ptr + o, SubSeq(input.bytes, o + 1, Len(input.bytes)))

\* ----------------------------------------------------------- VerboseError

\* VerboseErrorKind::Context(s) and VerboseErrorKind::Nom(kind).
Context(s) == [tag |-> "Context", ctx |-> s]
Nom(kind) == [tag |-> "Nom", kind |-> kind]

VerboseError(errors) == [errors |-> errors]

\* A panic with its message.
Panic(message) == [class |-> "Panic", message |-> message]

\* ParseError::from_char: unimplemented!(..), whatever it is given.
from_char(input, c) ==
    Panic("not implemented: chars don't really make sense for a binary parser")

\* ParseError::from_error_kind
from_error_kind(input, kind) == VerboseError(<<<<input, Nom(kind)>>>>)

\* append as it would be if an entry equal to the last one were dropped.
append_dedup(input, kind, other) ==
    IF other.errors[Len(other.errors)] = <<input, Nom(kind)>>
    THEN other
    ELSE VerboseError(Append(other.errors, <<input, Nom(kind)>>))

\* ParseError::append
append(input, kind, other) ==
    VerboseError(Append(other.errors, <<input, Nom(kind)>>))

\* add_context as it would be if it recorded where the inner parser failed
\* instead of the input it is given.
add_context_inner_position(input, ctx, other) ==
    VerboseError(Append(other.errors, <<other.errors[1][1], Context(ctx)>>))

\* ContextError::add_context for VerboseError
add_context(input, ctx, other) ==
    VerboseError(Append(other.errors, <<input, Context(ctx)>>))

\* ContextError::new for VerboseError
new(input, ctx) == VerboseError(<<<<input, Context(ctx)>>>>)

\* -------------------------------------------------------------- context()

\* IResult<I, O, E>: Ok((rest, value)) or Err(Incomplete / Error / Failure).
Ok(rest, value) == [class |-> "Ok", rest |-> rest, value |-> value]
Incomplete(needed) == [class |-> "Incomplete", needed |-> needed]
Error(e) == [class |-> "Error", e |-> e]
Failure(e) == [class |-> "Failure", e |-> e]

IsErr(r) == r.class \in {"Error", "Failure"}

\* r is an IResult: a parser has returned it.
IsResult(r) == r.class \in {"Ok", "Incomplete", "Error", "Failure"}

\* context as it would be if the label were built before the inner parser
\* is run.
context_eager_label(ctx, f, i) ==
    LET r == f[i] IN
    CASE r.class = "Ok" -> [out |-> r, parsed |-> <<i>>, label_calls |-> 1]
      [] r.class = "Incomplete" ->
            [out |-> Incomplete(r.needed), parsed |-> <<i>>,
             label_calls |-> 1]
      [] r.class = "Error" ->
            [out |-> Error(add_context(i, ctx, r.e)), parsed |-> <<i>>,
             label_calls |-> 1]
      [] r.class = "Failure" ->
            [out |-> Failure(add_context(i, ctx, r.e)), parsed |-> <<i>>,
             label_calls |-> 1]

\* context as it would be if an unfinished inner parse were reported as a
\* labelled error.
context_incomplete_as_error(ctx, f, i) ==
    LET r == f[i] IN
    CASE r.class = "Ok" -> [out |-> r, parsed |-> <<i>>, label_calls |-> 0]
      [] r.class = "Incomplete" ->
            [out |-> Error(new(i, ctx)), parsed |-> <<i>>, label_calls |-> 1]
      [] r.class = "Error" ->
            [out |-> Error(add_context(i, ctx, r.e)), parsed |-> <<i>>,
             label_calls |-> 1]
      [] r.class = "Failure" ->
            [out |-> Failure(add_context(i, ctx, r.e)), parsed |-> <<i>>,
             label_calls |-> 1]

\* One call of the closure that context(label, f) returns, on input i.  f is
\* the inner parser, a map from inputs to results, and ctx is what the label
\* closure yields when it is called.  out is what the closure returns,
\* parsed the inputs f was run on, label_calls the number of times the label
\* closure was called.
context(ctx, f, i) ==
    LET r == f[i] IN
    CASE r.class = "Ok" -> [out |-> r, parsed |-> <<i>>, label_calls |-> 0]
      [] r.class = "Incomplete" ->
            [out |-> Incomplete(r.needed), parsed |-> <<i>>,
             label_calls |-> 0]
      [] r.class = "Error" ->
            [out |-> Error(add_context(i, ctx, r.e)), parsed |-> <<i>>,
             label_calls |-> 1]
      [] r.class = "Failure" ->
            [out |-> Failure(add_context(i, ctx, r.e)), parsed |-> <<i>>,
             label_calls |-> 1]

\* ------------------------------------------------------------- formatting

\* A String is modelled by the bytes it holds (UTF-8); every character the
\* renderer writes is ASCII, so a byte is also a column.

\* The characters 0x20 .. 0x5f and 0x61 .. 0x7e, used to read the string
\* literals of the source (none of them holds a grave accent, 0x60).
AsciiLow ==
    " !\"#$%&'()*+,-./0123456789:;<=>?@ABCDEFGHIJKLMNOPQRSTUVWXYZ[\\]^_"
AsciiHigh == "abcdefghijklmnopqrstuvwxyz{|}~"

\* The byte of one character of a string literal.
Code(c) ==
    IF c = "\n" THEN 10
    ELSE IF \E k \in 1..Len(AsciiLow) : SubSeq(AsciiLow, k, k) = c
    THEN 31 + (CHOOSE k \in 1..Len(AsciiLow) : SubSeq(AsciiLow, k, k) = c)
    ELSE 96 + (CHOOSE k \in 1..Len(AsciiHigh) : SubSeq(AsciiHigh, k, k) = c)

\* The bytes of a &str.
Str(s) == [k \in 1..Len(s) |-> Code(SubSeq(s, k, k))]

\* The hex digit d: '0'..'9', 'a'..'f'.
Digit(d) == IF d < 10 THEN 48 + d ELSE 87 + d

\* The digits of n in the given base, no padding ({} and {:x}).
RECURSIVE Numeral(_, _)
Numeral(n, base) ==
    IF n < base THEN <<Digit(n)>>
    ELSE Append(Numeral(n \div base, base), Digit(n % base))

\* s right-aligned in a field of at least w characters, filled with c.
RECURSIVE PadLeft(_, _, _)
PadLeft(s, w, c) == IF Len(s) >= w THEN s ELSE PadLeft(<<c>> \o s, w, c)

\* {} of a usize, {:08x}, {:02x}, {:#x}
Display(n) == Numeral(n, 10)
Hex08(n) == PadLeft(Numeral(n, 16), 8, 48)
Hex02(n) == PadLeft(Numeral(n, 16), 2, 48)
HexAlt(n) == <<48, 120>> \o Numeral(n, 16)

\* {:?} of an ErrorKind is its variant name.
DebugKind(kind) == Str(kind)

\* u8::is_ascii_graphic: '!' ..= '~'
is_ascii_graphic(byte) == byte >= 33 /\ byte <= 126

\* result.push(byte as char): the character U+0000 .. U+00FF with the byte's
\* value, pushed in UTF-8 (one byte below 0x80, two from 0x80 on).
AsChar(byte) ==
    IF byte < 128 THEN <<byte>>
    ELSE <<192 + (byte \div 64), 128 + (byte % 64)>>

\* ---------------------------------------------------------- convert_error

\* The pieces of text the format strings hold.
CARET == Str("^---")
InEmpty == Str(": in ")
GotEmptyInput == Str(", got empty input\n\n")
AtOffset == Str(": at offset ")
CommaSpace == Str(", ")
ColonFeed == Str(":\n")
InKind == Str("in ")
Colon == Str(":")
Space == Str(" ")
TwoSpaces == Str("  ")
Dot == Str(".")
Feed == Str("\n")
TwoFeeds == Str("\n\n")

\* The result of a usize subtraction: the difference; or, when the
\* subtrahend is the greater, a panic (overflow checks on, the debug
\* profile) or the difference wrapped around (overflow checks off, the
\* release profile), value then being the amount below zero: the usize is
\* 2^w - value for a pointer width of w bits.
Difference(n) == [panicked |-> FALSE, wrapped |-> FALSE, value |-> n]
Overflowed == [panicked |-> TRUE, wrapped |-> FALSE, value |-> 0]
Wrapped(n) == [panicked |-> FALSE, wrapped |-> TRUE, value |-> n]

\* nom's Offset::offset for [u8]: the start address of the substring less
\* the start address of the input, in usize arithmetic.
Offset(build, input, substring) ==
    IF substring.ptr >= input.ptr THEN Difference(substring.ptr - input.ptr)
    ELSE IF build = "debug" THEN Overflowed
    ELSE Wrapped(input.ptr - substring.ptr)

\* line_begin as it would be if the offset were rounded up.
line_begin_rounded_up(offset) == offset + (16 - (offset % 16))

\* The beginning of the 16-byte line that holds the offset.
line_begin(offset) == offset - (offset % 16)

\* input[line_begin..] does not panic.
SliceInBounds(input, begin) == begin >= 0 /\ begin <= Len(input.bytes)

\* HexColumns as it would be if the columns past the end of the buffer were
\* left out instead of padded.
RECURSIVE HexColumnsUnpadded(_, _, _)
HexColumnsUnpadded(input, begin, i) ==
    IF i >= 16 \/ begin + i >= Len(input.bytes) THEN <<>>
    ELSE (IF i % 2 = 0 THEN Space ELSE <<>>)
         \o Hex02(input.bytes[begin + i + 1])
         \o HexColumnsUnpadded(input, begin, i + 1)

\* The hex columns i, i+1, .., 15 of the line: a space before every even
\* column, two hex digits for a byte of the buffer, two spaces past its end.
RECURSIVE HexColumns(_, _, _)
HexColumns(input, begin, i) ==
    IF i >= 16 THEN <<>>
    ELSE (IF i % 2 = 0 THEN Space ELSE <<>>)
         \o (IF begin + i < Len(input.bytes)
             THEN Hex02(input.bytes[begin + i + 1])
             ELSE TwoSpaces)
         \o HexColumns(input, begin, i + 1)

\* The ASCII panel from column i on: one character for each of the (at most
\* 16) bytes the buffer holds from the beginning of the line.
RECURSIVE AsciiPanel(_, _, _)
AsciiPanel(input, begin, i) ==
    IF i >= 16 \/ begin + i >= Len(input.bytes) THEN <<>>
    ELSE (LET byte == input.bytes[begin + i + 1] IN
            IF is_ascii_graphic(byte) \/ byte = 32 THEN AsChar(byte) ELSE Dot)
         \o AsciiPanel(input, begin, i + 1)

\* The hexdump line: offset, hex columns, gutter, ASCII panel.
hexdump_line(input, begin) ==
    Hex08(begin) \o Colon \o HexColumns(input, begin, 0) \o TwoSpaces
        \o AsciiPanel(input, begin, 0)

\* caret_position as it would be without the adjustment for the second
\* byte of a pair.
caret_position_pairs_only(offset) ==
    LET line_offset == offset % 16
    IN  10 + Len(CARET) + (line_offset \div 2) * 5

\* The width the caret is right-aligned to.
caret_position(offset) ==
    LET line_offset == offset % 16
    IN  10 + Len(CARET) + (line_offset \div 2) * 5 + (line_offset % 2) * 2

\* entry_text as it would be with the block for Nom entries enabled.
entry_text_nom_shown(build, input, i, substring, kind) ==
    LET offset == Offset(build, input, substring).value IN
    IF Len(input.bytes) = 0
    THEN IF kind.tag = "Context"
         THEN Display(i) \o InEmpty \o Str(kind.ctx) \o GotEmptyInput
         ELSE Display(i) \o InEmpty \o DebugKind(kind.kind) \o GotEmptyInput
    ELSE Display(i) \o AtOffset \o HexAlt(offset) \o CommaSpace
             \o (IF kind.tag = "Context" THEN Str(kind.ctx)
                 ELSE InKind \o DebugKind(kind.kind))
             \o ColonFeed
             \o hexdump_line(input, line_begin(offset)) \o Feed
             \o PadLeft(CARET, caret_position(offset), 32) \o TwoFeeds

\* What one iteration of the loop over e.errors writes to the result when it
\* does not panic: i is the index of the entry, (substring, kind) the entry.
entry_text(build, input, i, substring, kind) ==
    LET offset == Offset(build, input, substring).value IN
    IF Len(input.bytes) = 0
    THEN IF kind.tag = "Context"
         THEN Display(i) \o InEmpty \o Str(kind.ctx) \o GotEmptyInput
         ELSE Display(i) \o InEmpty \o DebugKind(kind.kind) \o GotEmptyInput
    ELSE IF kind.tag = "Context"
         THEN Display(i) \o AtOffset \o HexAlt(offset) \o CommaSpace
                  \o Str(kind.ctx) \o ColonFeed
                  \o hexdump_line(input, line_begin(offset)) \o Feed
                  \o PadLeft(CARET, caret_position(offset), 32) \o TwoFeeds
         ELSE <<>>

\* The iteration for an entry panics.  The offset is computed first, before
\* the buffer is tested for emptiness: where the subtraction overflows, the
\* iteration panics there, whatever the buffer.  Otherwise it panics when
\* the buffer is not empty and the line's slice starts outside it; the line
\* of a wrapped offset 2^w - value starts within 15 bytes of it, far past
\* the end of any buffer.
entry_panics(build, input, substring) ==
    LET offset == Offset(build, input, substring) IN
    \/ offset.panicked
    \/ /\ Len(input.bytes) # 0
       /\ \/ offset.wrapped
          \/ ~SliceInBounds(input, line_begin(offset.value))

\* TextFrom as it would be if the printed index counted the entries with a
\* label only.
RECURSIVE TextFromLabelledCount(_, _, _, _)
TextFromLabelledCount(build, input, errors, i) ==
    IF i >= Len(errors) THEN <<>>
    ELSE entry_text(build, input,
                    Cardinality({k \in 1..i : errors[k][2].tag = "Context"}),
                    errors[i + 1][1], errors[i + 1][2])
         \o TextFromLabelledCount(build, input, errors, i + 1)

\* TextFrom as it would be if the entries were rendered outermost first.
RECURSIVE TextFromReversed(_, _, _, _)
TextFromReversed(build, input, errors, i) ==
    IF i >= Len(errors) THEN <<>>
    ELSE TextFromReversed(build, input, errors, i + 1)
         \o entry_text(build, input, i, errors[i + 1][1], errors[i + 1][2])

\* The text of the entries i, i+1, ... of the trace.
RECURSIVE TextFrom(_, _, _, _)
TextFrom(build, input, errors, i) ==
    IF i >= Len(errors) THEN <<>>
    ELSE entry_text(build, input, i, errors[i + 1][1], errors[i + 1][2])
         \o TextFrom(build, input, errors, i + 1)

\* What convert_error does: it returns the text, or panics in an iteration.
Returned(text) == [panicked |-> FALSE, text |-> text]
Panicked == [panicked |-> TRUE, text |-> <<>>]

convert_error(build, input, e) ==
    IF \E k \in 1..Len(e.errors) : entry_panics(build, input, e.errors[k][1])
    THEN Panicked
    ELSE Returned(TextFrom(build, input, e.errors, 0))

\* ------------------------------------------------------------------ state

VARIABLES
    input,        \* the whole input buffer
    cur,          \* the IResult on its way out of the nested parsers, or
                  \* the panic that ended the run
    seen,         \* the (position, annotation) pairs given to the seed and
                  \* to each append since, in order
    calls,        \* invocations of a context() wrapper so far
    label_calls,  \* evaluations of a label closure so far
    last,         \* the wrapper call that has just returned, if any
    result        \* what convert_error returned, once it has run

vars == <<input, cur, seen, calls, label_calls, last, result>>

\* No parser has run yet / no wrapper has just returned / not rendered yet.
NoResult == [class |-> "None"]
NoCall == [called |-> FALSE]
NotRun == [panicked |-> FALSE, text |-> <<>>, run |-> FALSE]

Offsets == 0..Len(input.bytes)
Values == {"v"}
Needs == {"Unknown", "Size(1)"}
Chars == {"a"}

Init ==
    /\ input \in {Buffer(a, n) : a \in Addrs, n \in 0..MaxPos}
    /\ cur = NoResult
    /\ seen = <<>>
    /\ calls = 0
    /\ label_calls = 0
    /\ last = NoCall
    /\ result = NotRun

\* The innermost parser, handed input[o..], succeeds after consuming n bytes.
PrimitiveOk ==
    /\ cur = NoResult
    /\ \E o \in Offsets, v \in Values :
         \E n \in 0..(Len(input.bytes) - o) :
            cur' = Ok(Suffix(input, o + n), v)
    /\ UNCHANGED <<input, seen, calls, label_calls, last, result>>

\* The innermost (streaming) parser needs more input.
PrimitiveIncomplete ==
    /\ cur = NoResult
    /\ \E needed \in Needs : cur' = Incomplete(needed)
    /\ UNCHANGED <<input, seen, calls, label_calls, last, result>>

\* The innermost parser fails on input[o..]: a nom primitive seeds the trace
\* with from_error_kind, as a recoverable error or (under cut) a failure.
PrimitiveFails ==
    /\ cur = NoResult
    /\ \E o \in Offsets, kind \in ErrorKinds, fatal \in BOOLEAN :
         LET e == from_error_kind(Suffix(input, o), kind) IN
         /\ cur' = IF fatal THEN Failure(e) ELSE Error(e)
         /\ seen' = <<<<Suffix(input, o), Nom(kind)>>>>
    /\ UNCHANGED <<input, calls, label_calls, last, result>>

\* The innermost parser fails on input[o..] and is a nom primitive that
\* seeds the error with from_char (a character parser): building the error
\* panics, no result is returned and the run ends there.
PrimitiveFromChar ==
    /\ cur = NoResult
    /\ \E o \in Offsets, c \in Chars : cur' = from_char(Suffix(input, o), c)
    /\ UNCHANGED <<input, seen, calls, label_calls, last, result>>

\* bail!(input, msg): return Err(Err::Error(E::new(input, msg))).
Bail ==
    /\ cur = NoResult
    /\ \E o \in Offsets, ctx \in Labels :
         /\ cur' = Error(new(Suffix(input, o), ctx))
         /\ seen' = <<<<Suffix(input, o), Context(ctx)>>>>
    /\ UNCHANGED <<input, calls, label_calls, last, result>>

\* An enclosing nom combinator, handed input[o..], appends its own kind to
\* the error of the parser it ran.
AppendKind ==
    /\ IsErr(cur)
    /\ result = NotRun
    /\ Len(cur.e.errors) < MaxEntries
    /\ \E o \in Offsets, kind \in ErrorKinds :
         /\ cur' = [cur EXCEPT !.e = append(Suffix(input, o), kind, cur.e)]
         /\ seen' = Append(seen, <<Suffix(input, o), Nom(kind)>>)
    /\ last' = NoCall
    /\ UNCHANGED <<input, calls, label_calls, result>>

\* An enclosing context(label, f) wrapper is handed i = input[o..] and
\* returns.  Its inner parser f is the parser nest that has run so far: on i
\* it returns cur.
CallContext ==
    /\ IsResult(cur)
    /\ result = NotRun
    /\ calls < MaxCalls
    /\ IsErr(cur) => Len(cur.e.errors) < MaxEntries
    /\ \E o \in Offsets, ctx \in Labels :
         LET i == Suffix(input, o)
             f == [x \in {Suffix(input, k) : k \in Offsets} |->
                     IF x = i THEN cur ELSE NoResult]
             c == context(ctx, f, i)
         IN  /\ cur' = c.out
             /\ label_calls' = label_calls + c.label_calls
             /\ last' = [called |-> TRUE, i |-> i, ctx |-> ctx, inner |-> cur,
                         out |-> c.out, parsed |-> c.parsed,
                         label_calls |-> c.label_calls]
             /\ seen' = IF IsErr(cur)
                        THEN Append(seen, <<i, Context(ctx)>>)
                        ELSE seen
    /\ calls' = calls + 1
    /\ UNCHANGED <<input, result>>

\* The driver hands the buffer and the error of the failed parse to
\* convert_error, in a program built with either profile.
ConvertError ==
    /\ IsErr(cur)
    /\ result = NotRun
    /\ \E build \in Builds :
         LET r == convert_error(build, input, cur.e)
         IN  result' =
                 [panicked |-> r.panicked, text |-> r.text, run |-> TRUE]
    /\ UNCHANGED <<input, cur, seen, calls, label_calls, last>>

Next ==
    \/ PrimitiveOk
    \/ PrimitiveIncomplete
    \/ PrimitiveFails
    \/ PrimitiveFromChar
    \/ Bail
    \/ AppendKind
    \/ CallContext
    \/ ConvertError

Spec == Init /\ [][Next]_vars

\* ------------------------------------- convert_error over drawn inputs

\* The traces of n entries over the buffer whose positions start at most at
\* offset hi: a wrapper is handed its input before the parsers it wraps, so
\* no entry starts after the entry before it.
RenderKinds == {Context("hdr"), Nom("Eof")}

RECURSIVE TracesOf(_, _, _)
TracesOf(buf, n, hi) ==
    IF n = 0 THEN {<<>>}
    ELSE UNION {
           { <<<<Suffix(buf, o), k>>>> \o t : t \in TracesOf(buf, n - 1, o) }
           : o \in 0..hi, k \in RenderKinds }

\* The buffer and the entry of the documented rendering example.
ExampleInput == Slice(4096, [j \in 1..32 |-> j - 1])
ExampleTrace == <<<<Suffix(ExampleInput, 17), Context("field X")>>>>

InitRender ==
    /\ \/ /\ input \in {Buffer(a, n) : a \in Addrs, n \in 0..MaxLen}
          /\ \E n \in 0..MaxRender :
               \E t \in TracesOf(input, n, Len(input.bytes)) :
                  cur = Error(VerboseError(t))
       \/ /\ input = ExampleInput
          /\ cur = Error(VerboseError(ExampleTrace))
    /\ seen = cur.e.errors
    /\ calls = 0
    /\ label_calls = 0
    /\ last = NoCall
    /\ result = NotRun

NextRender == ConvertError

SpecRender == InitRender /\ [][NextRender]_vars

\* ---------------------------------------------------------------- claims

\* The trace in flight, and whether one sequence starts another.
Trace == IF IsErr(cur) THEN cur.e.errors ELSE <<>>
IsPrefix(a, b) == Len(a) <= Len(b) /\ SubSeq(b, 1, Len(a)) = a

\* C1: a wrapper whose inner parser succeeds returns the inner Ok result
\* unchanged (same rest of input, same value), creates no trace entry and
\* never calls the label closure: after any number of successful calls the
\* count of label evaluations is still 0.
C1_SuccessIsTransparent ==
    (last.called /\ last.inner.class = "Ok") =>
        /\ last.out = last.inner
        /\ cur = last.inner
        /\ Trace = <<>>
        /\ last.label_calls = 0
        /\ label_calls = 0

C1_Witness ==
    /\ last.called
    /\ last.inner.class = "Ok"
    /\ calls >= 2
    /\ Len(last.inner.rest.bytes) < Len(input.bytes)

\* C2: a wrapper whose inner parser fails with class c (Error or Failure) and
\* trace t fails with the same class c and the trace t ++ [(i, Context(label))],
\* where i is the input the wrapper was handed, and the label closure was
\* called exactly once.
C2_FailureIsAnnotated ==
    (last.called /\ IsErr(last.inner)) =>
        /\ last.out.class = last.inner.class
        /\ last.out.e.errors =
               last.inner.e.errors \o <<<<last.i, Context(last.ctx)>>>>
        /\ cur = last.out
        /\ last.label_calls = 1

C2_Witness ==
    /\ last.called
    /\ last.inner.class = "Failure"
    /\ Len(last.inner.e.errors) >= 2
    /\ last.i # last.inner.e.errors[1][1]
    /\ last.out.class = "Failure"

\* C3: from the seed on, the trace is never empty, its entries are the seed's
\* pair followed by the pairs of the appends in the order they were made
\* (n appends give n + 1 entries), and each step keeps the trace it found as
\* a prefix of the trace it leaves: nothing is removed, reordered or merged.
C3_TraceIsAppendOnly ==
    [][IsErr(cur') =>
          /\ Len(cur'.e.errors) >= 1
          /\ cur'.e.errors = seen'
          /\ IsErr(cur) =>
                /\ IsPrefix(cur.e.errors, cur'.e.errors)
                /\ cur'.class = cur.class]_vars

C3_Witness ==
    /\ IsErr(cur)
    /\ Len(Trace) = 3
    /\ Trace[2] = Trace[3]
    /\ Trace[2][2].tag = "Nom"
    /\ Trace = seen

\* C10: a wrapper whose inner parser returns Incomplete(needed) returns
\* Incomplete(needed), creates no trace entry and does not call the label
\* closure; and whatever the inner parser returns, the wrapper returns a
\* result of the same class, having run the inner parser once, on the input
\* the wrapper was handed.
C10_IncompleteAndClassPreserved ==
    last.called =>
        /\ last.out.class = last.inner.class
        /\ last.parsed = <<last.i>>
        /\ last.inner.class = "Incomplete" =>
              /\ last.out = Incomplete(last.inner.needed)
              /\ last.label_calls = 0
              /\ label_calls = 0
              /\ Trace = <<>>

C10_Witness ==
    /\ last.called
    /\ last.inner = Incomplete("Size(1)")
    /\ last.out = Incomplete("Size(1)")
    /\ calls >= 2

\* ------------------------------------------------ reading a rendered text

Columns(s, c) == {k \in 1..Len(s) : s[k] = c}

\* The lines of a text: the pieces its line feeds end, and what follows the
\* last line feed if anything does.
Lines(s) ==
    LET feeds == Columns(s, 10)
        n == Cardinality(feeds)
        feed == [j \in 1..n |->
                   CHOOSE p \in feeds : Cardinality({q \in feeds : q < p}) = j - 1]
        start(j) == IF j = 1 THEN 1 ELSE feed[j - 1] + 1
    IN  [j \in 1..(IF start(n + 1) <= Len(s) THEN n + 1 ELSE n) |->
            IF j <= n THEN SubSeq(s, start(j), feed[j] - 1)
            ELSE SubSeq(s, start(j), Len(s))]
LineAt(lines, n) == IF n \in DOMAIN lines THEN lines[n] ELSE <<>>

StartsWith(s, p) == Len(s) >= Len(p) /\ SubSeq(s, 1, Len(p)) = p
EndsWith(s, p) ==
    Len(s) >= Len(p) /\ SubSeq(s, Len(s) - Len(p) + 1, Len(s)) = p
AllSpaces(s) == \A k \in 1..Len(s) : s[k] = 32

\* The characters '0'..'9' and 'a'..'f', and the number a run of them spells.
IsHexDigit(c) == c \in 48..57 \/ c \in 97..102
RECURSIVE HexValue(_)
HexValue(s) ==
    IF s = <<>> THEN 0
    ELSE 16 * HexValue(SubSeq(s, 1, Len(s) - 1))
         + (IF s[Len(s)] <= 57 THEN s[Len(s)] - 48 ELSE s[Len(s)] - 87)
IsHex(s) == \A k \in 1..Len(s) : IsHexDigit(s[k])

Min(a, b) == IF a < b THEN a ELSE b

\* The rendered state: the buffer's length, the text and its lines.
Rendered == result.run
BufLen == Len(input.bytes)
OutLines == Lines(result.text)

\* Where entry k of the trace starts in the buffer: the bytes before it.
EntryOffset(k) == BufLen - Len(Trace[k][1].bytes)
EntryKind(k) == Trace[k][2]
IsLabelled(k) == EntryKind(k).tag = "Context"

\* The entries with a label, in trace order.
Labelled == {k \in 1..Len(Trace) : IsLabelled(k)}
LabelledSeq ==
    [j \in 1..Cardinality(Labelled) |->
        CHOOSE k \in Labelled : Cardinality({m \in Labelled : m < k}) = j - 1]

\* The lines of the j-th block of a rendering of a non-empty buffer.
HeaderRow(lines, j) == LineAt(lines, 4 * j - 3)
HexRow(lines, j) == LineAt(lines, 4 * j - 2)
CaretRow(lines, j) == LineAt(lines, 4 * j - 1)
BlankRow(lines, j) == LineAt(lines, 4 * j)

\* The column (from 1) of the first hex digit of byte column c of a hexdump
\* row: past the 8 digits and the colon, past one space for every even
\* column up to c, past two digits for every column before c.
HexDigitColumn(c) ==
    8 + 1 + Cardinality({x \in 0..c : x % 2 = 0}) + 2 * c + 1
HexCell(row, c) == SubSeq(row, HexDigitColumn(c), HexDigitColumn(c) + 1)

\* The hex row of the documented example, and pieces of expected text.
ColonSpace == Str(": ")
ExampleRow ==
    Str("00000010: 1011 1213 1415 1617 1819 1a1b 1c1d 1e1f  ................")
GotEmpty == Str(", got empty input")
EmptyLine2 == Str("2: in len, got empty input")
Header1 == Str("1: at offset 0x")
Header2 == Str("2: at offset 0x")

\* Some line of the output starts with the index of entry k.
HasOutput(lines, k) ==
    \E n \in DOMAIN lines : StartsWith(lines[n], Display(k - 1) \o ColonSpace)

\* C4 as stated: whatever the buffer, empty or not, the rendered text holds
\* no output for an entry whose annotation is a Nom kind.
C4_NoOutputForNomAnyBuffer ==
    LET lines == OutLines IN
        Rendered => \A k \in 1..Len(Trace) : ~IsLabelled(k) => ~HasOutput(lines, k)

\* C4, amended: when the buffer is not empty, the rendered text holds no
\* output for an entry whose annotation is a Nom kind.
C4_NoOutputForNomNonEmptyBuffer ==
    LET lines == OutLines IN
        (Rendered /\ BufLen > 0) =>
            \A k \in 1..Len(Trace) : ~IsLabelled(k) => ~HasOutput(lines, k)

C4_Witness ==
    LET lines == OutLines IN
        /\ Rendered
        /\ BufLen > 0
        /\ Len(Trace) = 2
        /\ ~IsLabelled(1)
        /\ IsLabelled(2)
        /\ HasOutput(lines, 2)

\* C5: for an empty buffer the text is, entry by entry in trace order, the
\* line "<index>: in <annotation>, got empty input" (index from 0, the
\* annotation being the label or the debug text of the kind) followed by an
\* empty line: one such line per entry, no hexdump row and no caret row.
C5_EmptyBufferLines ==
    LET lines == OutLines IN
        (Rendered /\ BufLen = 0) =>
            /\ ~result.panicked
            /\ Len(lines) = 2 * Len(Trace)
            /\ \A k \in 1..Len(Trace) :
                  /\ LineAt(lines, 2 * k - 1) =
                         Display(k - 1) \o Str(": in ")
                           \o Str(IF IsLabelled(k) THEN EntryKind(k).ctx
                                  ELSE EntryKind(k).kind)
                           \o GotEmpty
                  /\ LineAt(lines, 2 * k) = <<>>
            /\ Len(Trace) > 0 => EndsWith(result.text, <<10, 10>>)
            /\ Columns(result.text, 94) = {}

C5_Witness ==
    LET lines == OutLines IN
        /\ Rendered
        /\ BufLen = 0
        /\ Len(Trace) = 3
        /\ ~IsLabelled(1)
        /\ IsLabelled(2)
        /\ LineAt(lines, 5) = EmptyLine2

\* C6: for a non-empty buffer and a labelled entry at offset o, r = o mod 16,
\* the caret row is "^---" right-aligned to 10 + 4 + (r div 2)*5 + (r mod 2)*2
\* columns, and its '^' stands in the column of the first hex digit of byte
\* column r of the hexdump row above it (the digits of the byte at o, or
\* the padding when o is the end of the buffer).
C6_CaretUnderByte ==
    LET lines == OutLines IN
        (Rendered /\ BufLen > 0) =>
            \A j \in 1..Len(LabelledSeq) :
                LET o == EntryOffset(LabelledSeq[j])
                    r == o % 16
                    w == 10 + 4 + (r \div 2) * 5 + (r % 2) * 2
                IN  /\ Len(CaretRow(lines, j)) = w
                    /\ EndsWith(CaretRow(lines, j), <<94, 45, 45, 45>>)
                    /\ AllSpaces(SubSeq(CaretRow(lines, j), 1, w - 4))
                    /\ Columns(CaretRow(lines, j), 94) = {HexDigitColumn(r)}
                    /\ HexCell(HexRow(lines, j), r) =
                           IF o < BufLen THEN Hex02(input.bytes[o + 1])
                           ELSE <<32, 32>>

C6_Witness ==
    LET lines == OutLines IN
        /\ Rendered
        /\ BufLen > 0
        /\ Len(LabelledSeq) = 2
        /\ EntryOffset(LabelledSeq[1]) = 15
        /\ EntryOffset(LabelledSeq[2]) = 6
        /\ Columns(CaretRow(lines, 1), 94) = {48}
        /\ Columns(CaretRow(lines, 2), 94) = {26}

\* C7: for a non-empty buffer of length L and entries at offsets 0 <= o <= L
\* (o = L, a position of no bytes at the end of the buffer, included, also
\* when L is a multiple of 16), convert_error returns a text, in either
\* build: the offset it computes for an entry is o (the subtraction does not
\* overflow), line_begin is o - (o mod 16) and at most L, and the slice
\* input[line_begin..] is in bounds.
C7_NeverFails ==
    (Rendered /\ BufLen > 0) =>
        /\ ~result.panicked
        /\ \A k \in 1..Len(Trace), build \in Builds :
              LET o == EntryOffset(k)
                  offset == Offset(build, input, Trace[k][1])
              IN  /\ offset = Difference(o)
                  /\ ~entry_panics(build, input, Trace[k][1])
                  /\ line_begin(offset.value) = 16 * (o \div 16)
                  /\ line_begin(offset.value) <= BufLen
                  /\ SliceInBounds(input, line_begin(offset.value))

C7_Witness ==
    LET lines == OutLines IN
        /\ Rendered
        /\ ~result.panicked
        /\ BufLen = 16
        /\ Len(Trace) = 2
        /\ EntryOffset(1) = 16
        /\ IsLabelled(1)
        /\ Len(lines) >= 4

\* C8: for a non-empty buffer of length L and a labelled entry at offset o,
\* the hex row starts with line_begin = 16*(o div 16) as 8 hex digits and a
\* colon, shows the bytes line_begin .. min(line_begin+16, L)-1 in order and
\* two spaces for each column past the end, so that 51 characters precede
\* the ASCII panel, which has min(16, L - line_begin) characters.  The
\* buffer 0x00..0x1f with an entry at 0x11 gives "00000010:" and 10..1f.
C8_HexRow ==
    LET lines == OutLines IN
        (Rendered /\ BufLen > 0) =>
            /\ \A j \in 1..Len(LabelledSeq) :
                  LET o == EntryOffset(LabelledSeq[j])
                      begin == 16 * (o \div 16)
                      row == HexRow(lines, j)
                  IN  /\ Len(row) = 51 + Min(16, BufLen - begin)
                      /\ IsHex(SubSeq(row, 1, 8))
                      /\ HexValue(SubSeq(row, 1, 8)) = begin
                      /\ row[9] = 58
                      /\ \A c \in 0..15 :
                            /\ IF begin + c < BufLen
                               THEN /\ IsHex(HexCell(row, c))
                                    /\ HexValue(HexCell(row, c)) =
                                           input.bytes[begin + c + 1]
                               ELSE HexCell(row, c) = <<32, 32>>
                            /\ c % 2 = 0 => row[HexDigitColumn(c) - 1] = 32
                      /\ SubSeq(row, 50, 51) = <<32, 32>>
            /\ (input = ExampleInput /\ Trace = ExampleTrace) =>
                  HexRow(lines, 1) = ExampleRow

C8_Witness ==
    LET lines == OutLines IN
        /\ Rendered
        /\ BufLen = 17
        /\ Len(LabelledSeq) = 2
        /\ EntryOffset(LabelledSeq[1]) = 17
        /\ EntryOffset(LabelledSeq[2]) = 3
        /\ Len(HexRow(lines, 1)) = 52
        /\ Len(HexRow(lines, 2)) = 67
        /\ input.bytes[10] = 96
        /\ HexRow(lines, 2)[61] = 96

\* C9: for a non-empty buffer the text is one block per labelled entry and
\* nothing else, in trace order: a header with the entry's index in the
\* whole trace (Nom entries counted), its offset and its label, the hex
\* row, the caret row, and an empty line.  So there are as many blocks as
\* labelled entries, not as entries, and the printed indices increase.
C9_BlocksInTraceOrder ==
    LET lines == OutLines IN
        (Rendered /\ BufLen > 0) =>
            /\ ~result.panicked
            /\ Len(lines) = 4 * Len(LabelledSeq)
            /\ \A j \in 1..Len(LabelledSeq) :
                  LET k == LabelledSeq[j] IN
                  /\ HeaderRow(lines, j) =
                         Display(k - 1) \o Str(": at offset ")
                           \o HexAlt(EntryOffset(k))
                           \o Str(", ") \o Str(EntryKind(k).ctx) \o Str(":")
                  /\ StartsWith(HexRow(lines, j),
                                Hex08(16 * (EntryOffset(k) \div 16)) \o <<58>>)
                  /\ EndsWith(CaretRow(lines, j), <<94, 45, 45, 45>>)
                  /\ AllSpaces(SubSeq(CaretRow(lines, j), 1,
                                      Len(CaretRow(lines, j)) - 4))
                  /\ BlankRow(lines, j) = <<>>
            /\ IF Len(LabelledSeq) = 0 THEN result.text = <<>>
               ELSE EndsWith(result.text, <<10, 10>>)

C9_Witness ==
    LET lines == OutLines IN
        /\ Rendered
        /\ BufLen > 0
        /\ Len(Trace) = 3
        /\ ~IsLabelled(1)
        /\ Len(LabelledSeq) = 2
        /\ StartsWith(HeaderRow(lines, 1), Header1)
        /\ StartsWith(HeaderRow(lines, 2), Header2)
        /\ Len(lines) = 8

====
